---- MODULE Spec2Model ----
(***************************************************************************)
(* A model of the SymPy engine of src/python/engine.py: the resolver       *)
(* _resolve_sympy_callable, the compute core _do_compute (fast-path        *)
(* dispatch, generic invocation with signature probing, serialisation)     *)
(* and SympyEngine.batch.  The symbolic library itself is opaque: every    *)
(* call into it returns a value or raises, chosen nondeterministically,    *)
(* and the same call always has the same outcome.                          *)
(***************************************************************************)
EXTENDS Integers, Sequences, FiniteSets, TLC

\* Python's None.
None == "None"

(***************************************************************************)
(* Strings the code inspects character by character (substring tests,      *)
(* split on ".", strip) are sequences of one-character strings.            *)
(***************************************************************************)
T_simplify == <<"s", "i", "m", "p", "l", "i", "f", "y">>
T_expand == <<"e", "x", "p", "a", "n", "d">>
T_factor == <<"f", "a", "c", "t", "o", "r">>
T_collect == <<"c", "o", "l", "l", "e", "c", "t">>
T_cancel == <<"c", "a", "n", "c", "e", "l">>
T_apart == <<"a", "p", "a", "r", "t">>
T_together == <<"t", "o", "g", "e", "t", "h", "e", "r">>
T_trigsimp == <<"t", "r", "i", "g", "s", "i", "m", "p">>
T_ratsimp == <<"r", "a", "t", "s", "i", "m", "p">>
T_solve == <<"s", "o", "l", "v", "e">>
T_diff == <<"d", "i", "f", "f">>
T_integrate == <<"i", "n", "t", "e", "g", "r", "a", "t", "e">>
T_evalf == <<"e", "v", "a", "l", "f">>
T_limit == <<"l", "i", "m", "i", "t">>
T_series == <<"s", "e", "r", "i", "e", "s">>
T_subs == <<"s", "u", "b", "s">>
T_det == <<"d", "e", "t">>
T_inv == <<"i", "n", "v">>
T_transpose == <<"t", "r", "a", "n", "s", "p", "o", "s", "e">>
T_differentiate == <<"d", "i", "f", "f", "e", "r", "e", "n", "t", "i", "a", "t", "e">>
T_derivative == <<"d", "e", "r", "i", "v", "a", "t", "i", "v", "e">>
T_d == <<"d">>
T_laplace == <<"l", "a", "p", "l", "a", "c", "e">>
T_invlaplace == <<"i", "n", "v", "l", "a", "p", "l", "a", "c", "e">>
T_fourier == <<"f", "o", "u", "r", "i", "e", "r">>
T_invfourier == <<"i", "n", "v", "f", "o", "u", "r", "i", "e", "r">>
T_z == <<"z">>
T_invz == <<"i", "n", "v", "z">>
T_laplace_transform == <<"l", "a", "p", "l", "a", "c", "e", "_", "t", "r", "a", "n", "s", "f", "o", "r", "m">>
T_inverse_laplace_transform == <<"i", "n", "v", "e", "r", "s", "e", "_", "l", "a", "p", "l", "a", "c", "e", "_", "t", "r", "a", "n", "s", "f", "o", "r", "m">>
T_fourier_transform == <<"f", "o", "u", "r", "i", "e", "r", "_", "t", "r", "a", "n", "s", "f", "o", "r", "m">>
T_inverse_fourier_transform == <<"i", "n", "v", "e", "r", "s", "e", "_", "f", "o", "u", "r", "i", "e", "r", "_", "t", "r", "a", "n", "s", "f", "o", "r", "m">>
T_ztransform == <<"z", "t", "r", "a", "n", "s", "f", "o", "r", "m">>
T_inverse_ztransform == <<"i", "n", "v", "e", "r", "s", "e", "_", "z", "t", "r", "a", "n", "s", "f", "o", "r", "m">>
T_inverse == <<"i", "n", "v", "e", "r", "s", "e">>
T_factorint == <<"f", "a", "c", "t", "o", "r", "i", "n", "t">>
T_pprint == <<"p", "p", "r", "i", "n", "t">>
T_not_a_real_operation == <<"n", "o", "t", "_", "a", "_", "r", "e", "a", "l", "_", "o", "p", "e", "r", "a", "t", "i", "o", "n">>
T_N == <<"N">>
T_Matrix == <<"M", "a", "t", "r", "i", "x">>
T_pi == <<"p", "i">>
T_abc == <<"a", "b", "c">>
T_vector == <<"v", "e", "c", "t", "o", "r">>
T_sympy == <<"s", "y", "m", "p", "y">>
T_Matrix_DOT_zeros == <<"M", "a", "t", "r", "i", "x", ".", "z", "e", "r", "o", "s">>
T_vector_DOT_laplacian == <<"v", "e", "c", "t", "o", "r", ".", "l", "a", "p", "l", "a", "c", "i", "a", "n">>
T_abc_DOT_x == <<"a", "b", "c", ".", "x">>
T_vector_DOT_nothing == <<"v", "e", "c", "t", "o", "r", ".", "n", "o", "t", "h", "i", "n", "g">>
T_sympy_DOT_vector == <<"s", "y", "m", "p", "y", ".", "v", "e", "c", "t", "o", "r">>
T_sympy_DOT_abc == <<"s", "y", "m", "p", "y", ".", "a", "b", "c">>
T_zeros == <<"z", "e", "r", "o", "s">>
T_laplacian == <<"l", "a", "p", "l", "a", "c", "i", "a", "n">>
T_x == <<"x">>

\* str.strip(): drop leading and trailing blanks.
RECURSIVE LStrip(_)
LStrip(s) == IF s # <<>> /\ Head(s) = " " THEN LStrip(Tail(s)) ELSE s

RECURSIVE RStrip(_)
RStrip(s) ==
    IF s # <<>> /\ s[Len(s)] = " " THEN RStrip(SubSeq(s, 1, Len(s) - 1)) ELSE s

Strip(s) == RStrip(LStrip(s))

\* needle in hay (Python's substring test on str).
Contains(hay, needle) ==
    \E i \in 1..(Len(hay) - Len(needle) + 1) :
        SubSeq(hay, i, i + Len(needle) - 1) = needle

\* str.split("."): the pieces between the dots, empty pieces kept.
RECURSIVE SplitFrom(_, _, _)
SplitFrom(s, i, cur) ==
    IF i > Len(s) THEN <<cur>>
    ELSE IF s[i] = "." THEN <<cur>> \o SplitFrom(s, i + 1, <<>>)
    ELSE SplitFrom(s, i + 1, Append(cur, s[i]))

Split(s) == SplitFrom(s, 1, <<>>)

\* ".".join(parts)
RECURSIVE Join(_)
Join(parts) ==
    IF parts = <<>> THEN <<>>
    ELSE IF Len(parts) = 1 THEN parts[1]
    ELSE parts[1] \o <<".">> \o Join(Tail(parts))

(***************************************************************************)
(* The library namespace the resolver walks.  An object is a record        *)
(* [id, callable]; Missing is what a failed lookup yields.                 *)
(***************************************************************************)
Missing == [id |-> "<missing>", callable |-> FALSE]

Fn(id) == [id |-> id, callable |-> TRUE]
Obj(id) == [id |-> id, callable |-> FALSE]

\* <<owner id, attribute name, object>>: getattr(owner, name) = object.
Attrs ==
    { <<"sympy", T_simplify, Fn("simplify")>>,
      <<"sympy", T_expand, Fn("expand")>>,
      <<"sympy", T_factor, Fn("factor")>>,
      <<"sympy", T_collect, Fn("collect")>>,
      <<"sympy", T_cancel, Fn("cancel")>>,
      <<"sympy", T_apart, Fn("apart")>>,
      <<"sympy", T_together, Fn("together")>>,
      <<"sympy", T_trigsimp, Fn("trigsimp")>>,
      <<"sympy", T_ratsimp, Fn("ratsimp")>>,
      <<"sympy", T_solve, Fn("solve")>>,
      <<"sympy", T_diff, Fn("diff")>>,
      <<"sympy", T_integrate, Fn("integrate")>>,
      <<"sympy", T_limit, Fn("limit")>>,
      <<"sympy", T_series, Fn("series")>>,
      <<"sympy", T_det, Fn("det")>>,
      <<"sympy", T_transpose, Fn("transpose")>>,
      <<"sympy", T_N, Fn("N")>>,
      <<"sympy", T_laplace_transform, Fn("laplace_transform")>>,
      <<"sympy", T_inverse_laplace_transform, Fn("inverse_laplace_transform")>>,
      <<"sympy", T_factorint, Fn("factorint")>>,
      <<"sympy", T_pprint, Fn("pprint")>>,
      <<"sympy", T_Matrix, Fn("Matrix")>>,
      <<"sympy", T_evalf, Obj("sympy.core.evalf")>>,
      <<"sympy", T_pi, Obj("pi")>>,
      <<"sympy", T_abc, Obj("sympy.abc")>>,
      <<"sympy", T_vector, Obj("sympy.vector")>>,
      <<"sympy.abc", T_x, Obj("abc.x")>>,
      <<"sympy.vector", T_laplacian, Fn("vector.laplacian")>>,
      <<"Matrix", T_zeros, Fn("Matrix.zeros")>> }

\* <<dotted module path, module id>>: the paths importlib can import.
Modules ==
    { <<T_sympy_DOT_abc, "sympy.abc">>,
      <<T_sympy_DOT_vector, "sympy.vector">> }

HasAttr(owner, name) == \E t \in Attrs : t[1] = owner /\ t[2] = name

\* getattr(owner, name), Missing standing for AttributeError / the default.
GetAttr(owner, name) ==
    IF HasAttr(owner, name)
    THEN (CHOOSE t \in Attrs : t[1] = owner /\ t[2] = name)[3]
    ELSE Missing

CanImport(path) == \E m \in Modules : m[1] = path

ImportModule(path) == (CHOOSE m \in Modules : m[1] = path)[2]

\* for p in parts: obj_any = getattr(obj_any, p), from the package root.
RECURSIVE Traverse(_, _)
Traverse(obj, parts) ==
    IF parts = <<>> THEN obj
    ELSE IF ~HasAttr(obj.id, Head(parts)) THEN Missing
    ELSE Traverse(GetAttr(obj.id, Head(parts)), Tail(parts))

AliasMap(name) ==
    CASE name = T_differentiate -> T_diff
      [] name = T_derivative -> T_diff
      [] name = T_d -> T_diff
      [] name = T_laplace -> T_laplace_transform
      [] name = T_invlaplace -> T_inverse_laplace_transform
      [] name = T_fourier -> T_fourier_transform
      [] name = T_invfourier -> T_inverse_fourier_transform
      [] name = T_z -> T_ztransform
      [] name = T_invz -> T_inverse_ztransform
      [] OTHER -> name

\* The qualified-path branch of the resolver (name is not a top-level
\* attribute): import the submodule, read the attribute, else walk the
\* attribute chain from the package root.
ResolveQualified(parts) ==
    LET mod_path == T_sympy \o <<".">> \o Join(SubSeq(parts, 1, Len(parts) - 1))
        attr_name == parts[Len(parts)]
    IN  IF ~CanImport(mod_path) THEN None
        ELSE LET obj == GetAttr(ImportModule(mod_path), attr_name)
             IN  IF obj.callable THEN obj.id
                 ELSE LET obj_any == Traverse(Obj("sympy"), parts)
                      IN  IF obj_any.callable THEN obj_any.id ELSE None

\* _resolve_sympy_callable(op): the id of the callable, or None.
ResolveSympyCallable(op) ==
    IF Strip(op) = <<>> THEN None
    ELSE LET name == AliasMap(Strip(op))
         IN  IF HasAttr("sympy", name)
             THEN (IF GetAttr("sympy", name).callable
                   THEN GetAttr("sympy", name).id ELSE None)
             ELSE IF Len(Split(name)) > 1 THEN ResolveQualified(Split(name))
             ELSE None

(***************************************************************************)
(* Values.  Everything handed to or returned by the library is a record    *)
(* with a kind field.                                                      *)
(***************************************************************************)
NoneVal == [kind |-> "None"]

Num(v) == [kind |-> "Number", val |-> v]
StrVal(s) == [kind |-> "Str", val |-> s]

\* The empty dict.
EmptyMap == <<>>

\* Names in lexicographic order: sorted(..., key=name) keeps this order.
NameOrder == <<"x", "y">>

\* sorted(names): the names of S in lexicographic order.
SortNames(S) == SelectSeq(NameOrder, LAMBDA n : n \in S)

\* An expression: its source text, its free symbols, whether it is an
\* Equality, whether it is a Matrix, and the substitution applied to it.
Expr(text, free, eq, matrix) ==
    [kind |-> "Expr", text |-> text, free |-> free, eq |-> eq,
     matrix |-> matrix, applied |-> EmptyMap]

\* sp.Symbol(n)
Symbol(n) == Expr(n, {n}, FALSE, FALSE)

\* sp.sympify(text): what the library's parser yields for the expression
\* strings of the model; NoneVal stands for SympifyError.
Sympify(text) ==
    LET E(free, eq, matrix) == Expr(text, free, eq, matrix)
    IN  CASE text = "4" -> E({}, FALSE, FALSE)
          [] text = "x" -> Symbol("x")
          [] text = "x**2 - 4" -> E({"x"}, FALSE, FALSE)
          [] text = "x*y + y" -> E({"x", "y"}, FALSE, FALSE)
          [] text = "Eq(x, 1)" -> E({"x"}, TRUE, FALSE)
          [] text = "Matrix([[1, 2], [3, 4]])" -> E({}, FALSE, TRUE)
          [] text = "y" -> Symbol("y")
          [] OTHER -> NoneVal

\* expr.subs(m): the names of m stop being free; the map is remembered.
SubsExpr(e, m) == [e EXCEPT !.free = @ \ DOMAIN m, !.applied = @ @@ m]

\* sp.Eq(expr, 0)
EqZero(e) == [e EXCEPT !.eq = TRUE]

\* dict.get(k, default)
Get(m, k, default) == IF k \in DOMAIN m THEN m[k] ELSE default

\* dict.setdefault(k, v): the dict afterwards.
SetDefault(m, k, v) == IF k \in DOMAIN m THEN m ELSE m @@ (k :> v)

\* A library call: the callable, its positional and its keyword arguments.
Call(fn, args, kw) == [fn |-> fn, args |-> args, kw |-> kw]

\* The value a successful call returns, and what was done to it afterwards.
Result(key, post) == [kind |-> "Result", of |-> key, post |-> post]

\* An exception: its class, its message, and for the two formatted
\* messages the task named in it and the error quoted in it.
ExcWith(type, msg, task, cause) ==
    [type |-> type, msg |-> msg, task |-> task, cause |-> cause]
Exc(type, msg) == ExcWith(type, msg, <<>>, NoneVal)

(***************************************************************************)
(* Requests (ComputeRequest).  An absent Optional string is None; an       *)
(* absent subs or args is the empty map or list, which the code treats     *)
(* the same way (it only tests their truthiness).                          *)
(***************************************************************************)
DefaultTimeout == 2
DefaultSeriesOrder == 6

OtherSeriesOrder == 4

\* series_order=None, which "series_order or 6" treats like 0.
NoSeriesOrder == 0

Req(expr, task, var, subs, solve_for, series_order, kwargs, args) ==
    [expr |-> expr, task |-> task, var |-> var, subs |-> subs,
     solve_for |-> solve_for, timeout_sec |-> DefaultTimeout,
     series_order |-> series_order, kwargs |-> kwargs, args |-> args]

\* _parse_arg on a string: sympified, or kept as a string when that fails.
ParseArg(a) == IF Sympify(a) # NoneVal THEN Sympify(a) ELSE StrVal(a)

\* v (line 239) and the initial s_for (line 240).
SymV(p) == IF p.var # None THEN Symbol(p.var) ELSE NoneVal
SFor(p) == IF p.solve_for # None THEN Symbol(p.solve_for) ELSE SymV(p)

\* sorted(expr.free_symbols, key=name)[0], the symbol the solve branch picks.
FirstFree(e) == Symbol(SortNames(e.free)[1])

\* v or (first free symbol if any else Symbol("x")): limit and series.
PickSym(p, e) ==
    IF SymV(p) # NoneVal THEN SymV(p)
    ELSE IF e.free # {} THEN FirstFree(e) ELSE Symbol("x")

\* The whole substitution map, the limit variable included.
AllSubs(p, sym) == p.subs

\* {Symbol(k): val for k, val in subs.items() if k != str(sym)}
OtherSubs(p, sym) == [k \in DOMAIN p.subs \ {sym.text} |-> p.subs[k]]

(***************************************************************************)
(* The fast path, lines 247-349: what each branch does before (and right   *)
(* after) its library call.  act is "call" (make the call key, then apply  *)
(* post to its result), "value" (res is val), "raise" or "none" (no branch *)
(* set res).  expr is the local expr afterwards, meta the metadata so far. *)
(***************************************************************************)
PCall(key, post, e, m) ==
    [act |-> "call", key |-> key, post |-> post, expr |-> e, meta |-> m]
PValue(val, e) == [act |-> "value", val |-> val, expr |-> e, meta |-> EmptyMap]
PRaise(exc) == [act |-> "raise", exc |-> exc]
PNone(e) == [act |-> "none", expr |-> e, meta |-> EmptyMap]

NoPost == <<>>

\* The branches that call fn(expr) and nothing else.
PlainTasks ==
    { <<T_expand, "expand">>, <<T_factor, "factor">>, <<T_cancel, "cancel">>,
      <<T_together, "together">>, <<T_trigsimp, "trigsimp">>,
      <<T_ratsimp, "ratsimp">> }

\* The branches that need var: task, callable, message.
VarTasks ==
    { <<T_collect, "collect", "Provide 'var' for collect.">>,
      <<T_diff, "diff", "Provide 'var' for differentiation.">>,
      <<T_integrate, "integrate", "Provide 'var' for integration.">> }

\* The solve branch with the raise of line 283 in force.
SolvePlanRaising(p, e) ==
    LET target == IF e.eq THEN e ELSE EqZero(e)
        s_for == IF SFor(p) # NoneVal THEN SFor(p)
                 ELSE IF e.free = {} THEN NoneVal ELSE FirstFree(e)
    IN  IF s_for # NoneVal
        THEN PCall(Call("solve", <<target, s_for>>, "dict" :> TRUE), NoPost, e, EmptyMap)
        ELSE PRaise(Exc("ValueError", "No variable to solve for; provide 'solve_for' or 'var'."))

\* Lines 278-290.
SolvePlan(p, e) ==
    LET target == IF e.eq THEN e ELSE EqZero(e)
        s_for == IF SFor(p) # NoneVal THEN SFor(p)
                 ELSE IF e.free = {} THEN NoneVal ELSE FirstFree(e)
    IN  IF s_for # NoneVal
        THEN PCall(Call("solve", <<target, s_for>>, "dict" :> TRUE), NoPost, e, EmptyMap)
        ELSE PNone(e)

LimitPlan(p, e) ==
    LET sym == PickSym(p, e)
        point == IF p.subs # EmptyMap THEN Get(p.subs, sym.text, 0) ELSE 0
        expr2 == SubsExpr(e, OtherSubs(p, sym))
        direction == Get(p.kwargs, "dir", None)
        kw == IF direction # None THEN "dir" :> direction ELSE EmptyMap
    IN  PCall(Call("limit", <<expr2, sym, Num(point)>>, kw), NoPost, e,
              "limit_point" :> point)

SeriesPlan(p, e) ==
    LET sym == PickSym(p, e)
        order == IF p.series_order # NoSeriesOrder THEN p.series_order
                 ELSE DefaultSeriesOrder
        center == Get(p.subs, sym.text, 0)
    IN  PCall(Call("series", <<e, sym, Num(center), Num(order)>>, EmptyMap),
              <<"removeO">>, e, EmptyMap)

MatrixPlan(p, e, method, msg) ==
    IF ~e.matrix THEN PRaise(Exc("ValueError", msg))
    ELSE PCall(Call(method, <<e>>, EmptyMap), NoPost, e, EmptyMap)

\* A guard that lets every branch run whatever args holds.
NoArgsIgnored(p) == TRUE

\* not payload.args
NoArgs(p) == p.args = <<>>

FastPlan(p, e) ==
    LET noargs == NoArgs(p)
        v == SymV(p)
    IN  CASE p.task = T_simplify /\ noargs ->
               PCall(Call("simplify", <<e>>, EmptyMap),
                     IF p.subs # EmptyMap THEN <<"subs", p.subs>> ELSE NoPost,
                     e, EmptyMap)
          [] (\E t \in PlainTasks : t[1] = p.task) /\ noargs ->
               PCall(Call((CHOOSE t \in PlainTasks : t[1] = p.task)[2], <<e>>, EmptyMap),
                     NoPost, e, EmptyMap)
          [] (\E t \in VarTasks : t[1] = p.task) /\ noargs ->
               LET t == CHOOSE t \in VarTasks : t[1] = p.task
               IN  IF v = NoneVal THEN PRaise(Exc("ValueError", t[3]))
                   ELSE PCall(Call(t[2], <<e, v>>, EmptyMap), NoPost, e, EmptyMap)
          [] p.task = T_apart /\ noargs ->
               PCall(Call("apart", IF v # NoneVal THEN <<e, v>> ELSE <<e>>, EmptyMap),
                     NoPost, e, EmptyMap)
          [] p.task = T_solve /\ noargs -> SolvePlan(p, e)
          [] p.task = T_evalf ->
               LET e2 == IF p.subs # EmptyMap THEN SubsExpr(e, p.subs) ELSE e
               IN  PCall(Call("N", <<e2>>, EmptyMap), NoPost, e2, EmptyMap)
          [] p.task = T_limit /\ noargs -> LimitPlan(p, e)
          [] p.task = T_series /\ noargs -> SeriesPlan(p, e)
          [] p.task = T_subs ->
               IF p.subs = EmptyMap /\ noargs
               THEN PRaise(Exc("ValueError", "Provide 'subs' mapping for substitution."))
               ELSE IF p.subs # EmptyMap THEN PValue(SubsExpr(e, p.subs), e)
               ELSE PNone(e)
          [] p.task = T_det ->
               MatrixPlan(p, e, "Matrix.det",
                          "Expression is not a matrix; cannot compute determinant.")
          [] p.task = T_inv ->
               MatrixPlan(p, e, "Matrix.inv",
                          "Expression is not a matrix; cannot compute inverse.")
          [] p.task = T_transpose ->
               IF e.matrix THEN PValue(Result(Call("Matrix.T", <<e>>, EmptyMap), NoPost), e)
               ELSE PRaise(Exc("ValueError", "Expression is not a matrix; cannot transpose."))
          [] OTHER -> PNone(e)

(***************************************************************************)
(* State.  items is the batch being run (items0 its value at submission),  *)
(* idx the item being computed, pc the position inside _do_compute and     *)
(* batch; expr, res, meta, func, success, last_error are the locals of     *)
(* _do_compute.  memo holds the outcome of every library call made so far, *)
(* calls[i] the calls item i made, via[i] the path that set its res,       *)
(* hist[i] how _do_compute ended for item i, out the list batch builds.    *)
(***************************************************************************)
VARIABLES items, items0, idx, pc, expr, res, meta, func, success,
          last_error, memo, calls, via, hist, out

vars == <<items, items0, idx, pc, expr, res, meta, func, success,
          last_error, memo, calls, via, hist, out>>

\* How a call into the library can end, for a callable of the model.
ReturnsNone == {"pprint"}

LibOutcomes(fn) ==
    IF fn = "latex" THEN {"value", "Error"}
    ELSE {"value", "TypeError", "Error"}
         \cup (IF fn \in ReturnsNone THEN {"None"} ELSE {})

\* The same call has the same outcome every time.
Outcomes(key) == IF key \in DOMAIN memo THEN {memo[key]} ELSE LibOutcomes(key.fn)

\* The exception a failing call raises: a TypeError (which is also what a
\* call with the wrong arity or keyword raises) or another Exception.
LibExc(o) ==
    IF o = "TypeError" THEN Exc("TypeError", "raised by the library")
    ELSE Exc("NotImplementedError", "raised by the library")

Returned(o) == o \in {"value", "None"}

Record(key, o, how) ==
    /\ memo' = (key :> o) @@ memo
    /\ calls' = [calls EXCEPT ![idx] =
                    Append(@, [key |-> key, outcome |-> o, how |-> how])]

Success(data) == [ok |-> TRUE, data |-> data, exc |-> NoneVal]
Failure(exc) == [ok |-> FALSE, data |-> NoneVal, exc |-> exc]

\* _do_compute returns or raises: control goes back to batch.
Finish(outcome) ==
    /\ hist' = Append(hist, outcome)
    /\ pc' = "finished"

\* Line 233: expr = _parse_expr(payload.expr, sym_names).
Parse ==
    /\ pc = "parse"
    /\ LET e == Sympify(items[idx].expr)
       IN  IF e = NoneVal
           THEN /\ Finish(Failure(Exc("SympifyError", "could not parse")))
                /\ UNCHANGED expr
           ELSE /\ expr' = e
                /\ pc' = "dispatch"
                /\ UNCHANGED hist
    /\ UNCHANGED <<items, items0, idx, res, meta, func, success, last_error,
                   memo, calls, via, out>>

\* Lines 247-349: the if/elif chain of task-specific branches.
FastPath ==
    /\ pc = "dispatch"
    /\ LET plan == FastPlan(items[idx], expr)
       IN  CASE plan.act = "raise" ->
                  /\ Finish(Failure(plan.exc))
                  /\ UNCHANGED <<expr, res, meta, memo, calls, via>>
             [] plan.act = "none" ->
                  /\ pc' = "resolve"
                  /\ UNCHANGED <<expr, res, meta, memo, calls, via, hist>>
             [] plan.act = "value" ->
                  /\ res' = plan.val
                  /\ via' = [via EXCEPT ![idx] = "fast"]
                  /\ pc' = "serialize"
                  /\ UNCHANGED <<expr, meta, memo, calls, hist>>
             [] plan.act = "call" ->
                  \E o \in Outcomes(plan.key) :
                     /\ Record(plan.key, o, "fast")
                     /\ expr' = plan.expr
                     /\ meta' = plan.meta
                     /\ IF Returned(o)
                        THEN /\ res' = IF o = "value"
                                       THEN Result(plan.key, plan.post)
                                       ELSE NoneVal
                             /\ via' = [via EXCEPT ![idx] =
                                           IF o = "value" THEN "fast" ELSE @]
                             /\ pc' = IF o = "value" THEN "serialize" ELSE "resolve"
                             /\ UNCHANGED hist
                        ELSE /\ Finish(Failure(LibExc(o)))
                             /\ UNCHANGED <<res, via>>
    /\ UNCHANGED <<items, items0, idx, func, success, last_error, out>>

\* Lines 352-379: resolve the callable; with args go straight to the call,
\* without them set the Laplace default and start probing.
Resolve ==
    /\ pc = "resolve"
    /\ LET p == items[idx]
           f == ResolveSympyCallable(p.task)
       IN  IF f = None
           THEN /\ Finish(Failure(ExcWith("ValueError", "Unsupported SymPy operation: ",
                                          p.task, NoneVal)))
                /\ UNCHANGED <<items, func, success, last_error>>
           ELSE /\ func' = f
                /\ UNCHANGED hist
                /\ IF p.args # <<>>
                   THEN /\ pc' = "call"
                        /\ UNCHANGED <<items, success, last_error>>
                   ELSE /\ items' = [items EXCEPT ![idx].kwargs =
                                        IF Contains(p.task, T_laplace)
                                        THEN SetDefault(@, "noconds", TRUE) ELSE @]
                        /\ success' = FALSE
                        /\ last_error' = NoneVal
                        /\ pc' = "try1"
    /\ UNCHANGED <<items0, idx, expr, res, meta, memo, calls, via, out>>

Sym1(p) == IF p.var # None THEN Symbol(p.var) ELSE NoneVal
Sym2(p) == IF p.solve_for # None THEN Symbol(p.solve_for) ELSE NoneVal

\* One probing attempt: call func with args; a return ends the probing
\* with success, an exception of a caught class is kept in last_error, any
\* other exception leaves _do_compute.
Attempt(args, caught, next) ==
    LET key == Call(func, args, items[idx].kwargs)
    IN  \E o \in Outcomes(key) :
           /\ Record(key, o, "probe")
           /\ IF Returned(o)
              THEN /\ res' = IF o = "value" THEN Result(key, NoPost) ELSE NoneVal
                   /\ via' = [via EXCEPT ![idx] = "probe"]
                   /\ success' = TRUE
                   /\ pc' = next
                   /\ UNCHANGED <<last_error, hist>>
              ELSE IF o \in caught
              THEN /\ last_error' = LibExc(o)
                   /\ pc' = next
                   /\ UNCHANGED <<res, via, success, hist>>
              ELSE /\ Finish(Failure(LibExc(o)))
                   /\ UNCHANGED <<res, via, success, last_error>>

Skip(next) ==
    /\ pc' = next
    /\ UNCHANGED <<res, via, success, last_error, hist, memo, calls>>

ProbeFrame == <<items, items0, idx, expr, meta, func, out>>

\* Lines 381-387: (expr, sym1, sym2, **kwargs).
Try1 ==
    /\ pc = "try1"
    /\ LET p == items[idx]
       IN  IF Sym1(p) # NoneVal /\ Sym2(p) # NoneVal
           THEN Attempt(<<expr, Sym1(p), Sym2(p)>>, {"TypeError"}, "try1b")
           ELSE Skip("try1b")
    /\ UNCHANGED ProbeFrame

\* Lines 389-395: the swapped order, for tasks named "...inverse...".
Try1b ==
    /\ pc = "try1b"
    /\ LET p == items[idx]
       IN  IF ~success /\ Contains(p.task, T_inverse)
              /\ Sym1(p) # NoneVal /\ Sym2(p) # NoneVal
           THEN Attempt(<<expr, Sym2(p), Sym1(p)>>, {"TypeError"}, "try2")
           ELSE Skip("try2")
    /\ UNCHANGED ProbeFrame

\* Lines 397-403: (expr, sym1, **kwargs).
Try2 ==
    /\ pc = "try2"
    /\ LET p == items[idx]
       IN  IF ~success /\ Sym1(p) # NoneVal
           THEN Attempt(<<expr, Sym1(p)>>, {"TypeError"}, "try3")
           ELSE Skip("try3")
    /\ UNCHANGED ProbeFrame

\* Lines 405-411: (expr, **kwargs), every Exception caught.
Try3 ==
    /\ pc = "try3"
    /\ IF ~success
       THEN Attempt(<<expr>>, {"TypeError", "Error"}, "probed")
       ELSE Skip("probed")
    /\ UNCHANGED ProbeFrame

\* Lines 413-414: no attempt returned.
ProbeEnd ==
    /\ pc = "probed"
    /\ IF ~success
       THEN Finish(Failure(ExcWith("ValueError", "Unable to call sympy.",
                                   items[idx].task, last_error)))
       ELSE pc' = "call" /\ UNCHANGED hist
    /\ UNCHANGED <<items, items0, idx, expr, res, meta, func, success,
                   last_error, memo, calls, via, out>>

\* call_args: expr, then the parsed args (lines 359-364).
CallArgs(p, e) == <<e>> \o [i \in 1..Len(p.args) |-> ParseArg(p.args[i])]

\* Lines 417-418: if res is None: res = func(*call_args, **payload.kwargs).
GenericCall ==
    /\ pc = "call"
    /\ IF res = NoneVal
       THEN LET p == items[idx]
                key == Call(func, CallArgs(p, expr), p.kwargs)
            IN  \E o \in Outcomes(key) :
                   /\ Record(key, o, "call")
                   /\ IF Returned(o)
                      THEN /\ res' = IF o = "value" THEN Result(key, NoPost) ELSE NoneVal
                           /\ via' = [via EXCEPT ![idx] = "call"]
                           /\ pc' = "serialize"
                           /\ UNCHANGED hist
                      ELSE /\ Finish(Failure(LibExc(o)))
                           /\ UNCHANGED <<res, via>>
       ELSE /\ pc' = "serialize"
            /\ UNCHANGED <<res, via, hist, memo, calls>>
    /\ UNCHANGED <<items, items0, idx, expr, meta, func, success, last_error, out>>

\* str(res) and sp.latex(res).
ToStr(v) == [kind |-> "str", of |-> v]
ToLatex(v) == [kind |-> "latex", of |-> v]

\* isinstance(res, list): what solve returns.
IsList(v) == v.kind = "Result" /\ v.of.fn = "solve"

Response(result_str, result_latex, m) ==
    [result_str |-> result_str, result_latex |-> result_latex, meta |-> m]

\* meta["free_symbols"] = sorted(s.name for s in expr.free_symbols)
WithFreeSymbols(m, e) == ("free_symbols" :> SortNames(e.free)) @@ m

\* Lines 420-437: render the result and return the response.
Serialize ==
    /\ pc = "serialize"
    /\ LET result_str == ToStr(res)
           m == WithFreeSymbols(meta, expr)
           key == Call("latex", <<res>>, EmptyMap)
       IN  IF res = NoneVal
           THEN /\ Finish(Success(Response(result_str, NoneVal, m)))
                /\ UNCHANGED <<memo, calls>>
           ELSE \E o \in Outcomes(key) :
                   /\ Record(key, o, "latex")
                   /\ IF o = "value"
                      THEN Finish(Success(Response(result_str, ToLatex(res), m)))
                      ELSE IF items[idx].task = T_solve /\ IsList(res)
                      THEN Finish(Failure(LibExc(o)))
                      ELSE Finish(Success(Response(result_str, result_str, m)))
    /\ UNCHANGED <<items, items0, idx, expr, res, meta, func, success,
                   last_error, via, out>>

\* f"{type(e).__name__}: {e}"
FormatError(e) == <<e.type, ": ", [msg |-> e.msg, task |-> e.task, cause |-> e.cause]>>

\* The entry batch appends for an item: lines 455-459.
BatchEntry(h) ==
    IF h.ok THEN [ok |-> TRUE, data |-> h.data]
    ELSE [ok |-> FALSE, error |-> FormatError(h.exc)]

InitLocals ==
    /\ expr = NoneVal
    /\ res = NoneVal
    /\ meta = EmptyMap
    /\ func = None
    /\ success = FALSE
    /\ last_error = NoneVal

\* A batch that stops at the first item that fails.
BatchCollectAborting ==
    /\ pc = "finished"
    /\ out' = IF hist[idx].ok THEN Append(out, BatchEntry(hist[idx])) ELSE out
    /\ idx' = idx + 1
    /\ pc' = IF idx + 1 > Len(items) \/ ~hist[idx].ok THEN "done" ELSE "parse"
    /\ expr' = NoneVal
    /\ res' = NoneVal
    /\ meta' = EmptyMap
    /\ func' = None
    /\ success' = FALSE
    /\ last_error' = NoneVal
    /\ UNCHANGED <<items, items0, memo, calls, via, hist>>

\* batch, lines 454-460: append the item's entry and go on to the next.
BatchCollect ==
    /\ pc = "finished"
    /\ out' = Append(out, BatchEntry(hist[idx]))
    /\ idx' = idx + 1
    /\ pc' = IF idx + 1 > Len(items) THEN "done" ELSE "parse"
    /\ expr' = NoneVal
    /\ res' = NoneVal
    /\ meta' = EmptyMap
    /\ func' = None
    /\ success' = FALSE
    /\ last_error' = NoneVal
    /\ UNCHANGED <<items, items0, memo, calls, via, hist>>

(***************************************************************************)
(* The requests and batches the model runs.                                *)
(***************************************************************************)
MaxBatch == 3

FastTasks ==
    { T_simplify, T_expand, T_factor, T_collect, T_cancel, T_apart, T_together,
      T_trigsimp, T_ratsimp, T_solve, T_diff, T_integrate, T_evalf, T_limit,
      T_series, T_subs, T_det, T_inv, T_transpose }

OtherTasks ==
    { T_derivative, T_laplace_transform, T_inverse_laplace_transform,
      T_invlaplace, T_factorint, T_pprint, T_not_a_real_operation,
      T_Matrix_DOT_zeros, T_vector_DOT_laplacian, T_abc_DOT_x,
      T_vector_DOT_nothing }

ExprTexts ==
    { "2 +", "4", "x**2 - 4", "x*y + y", "Eq(x, 1)", "Matrix([[1, 2], [3, 4]])" }

SubsMaps == { EmptyMap, "x" :> 2, "y" :> 3, ("x" :> 2) @@ ("y" :> 3) }

KwargsMaps == { EmptyMap, "dir" :> "+" }

ArgLists == { <<>>, <<"y">>, <<"y", "+">> }

\* Every request runs with the default series_order; series also runs
\* with none and with another order.
Requests ==
    { r \in [expr : ExprTexts, task : FastTasks \cup OtherTasks,
             var : {None, "x", "y"}, subs : SubsMaps, solve_for : {None, "y"},
             timeout_sec : {DefaultTimeout},
             series_order : {NoSeriesOrder, OtherSeriesOrder, DefaultSeriesOrder},
             kwargs : KwargsMaps, args : ArgLists] :
        r.task # T_series => r.series_order = DefaultSeriesOrder }

\* A request and the same request under the alias "derivative".
AliasPairs ==
    { <<r, [r EXCEPT !.task = T_derivative]>> : r \in {q \in Requests : q.task = T_diff} }

\* The requests batches of several items are made of.
BatchPool ==
    { Req("2 +", T_diff, "x", EmptyMap, None, DefaultSeriesOrder, EmptyMap, <<>>),
      Req("x**2 - 4", T_diff, "x", EmptyMap, None, DefaultSeriesOrder, EmptyMap, <<>>),
      Req("x**2 - 4", T_not_a_real_operation, None, EmptyMap, None, DefaultSeriesOrder, EmptyMap, <<>>),
      Req("x**2 - 4", T_laplace_transform, "x", EmptyMap, "y", DefaultSeriesOrder, EmptyMap, <<>>),
      Req("x**2 - 4", T_pprint, None, EmptyMap, None, DefaultSeriesOrder, EmptyMap, <<>>) }

RECURSIVE SeqsOf(_, _)
SeqsOf(S, n) ==
    IF n = 0 THEN {<<>>}
    ELSE {Append(q, x) : q \in SeqsOf(S, n - 1), x \in S}

Batches ==
    {<<r>> : r \in Requests} \cup AliasPairs
    \cup UNION {SeqsOf(BatchPool, n) : n \in 2..MaxBatch}

Init ==
    /\ items \in Batches
    /\ items0 = items
    /\ idx = 1
    /\ pc = "parse"
    /\ InitLocals
    /\ memo = EmptyMap
    /\ calls = [i \in 1..Len(items) |-> <<>>]
    /\ via = [i \in 1..Len(items) |-> "none"]
    /\ hist = <<>>
    /\ out = <<>>

Next ==
    \/ Parse
    \/ FastPath
    \/ Resolve
    \/ Try1
    \/ Try1b
    \/ Try2
    \/ Try3
    \/ ProbeEnd
    \/ GenericCall
    \/ Serialize
    \/ BatchCollect

Spec == Init /\ [][Next]_vars

(***************************************************************************)
(* Properties.                                                             *)
(***************************************************************************)
\* Item i has been computed: _do_compute returned or raised for it.
Computed(i) == i \in 1..Len(hist)

\* The expression item i was submitted with, as parsed.
Parsed(i) == Sympify(items0[i].expr)

\* The keys of the calls item i made to the operation itself (not the
\* rendering of its result).
OpCalls(i) == SelectSeq(calls[i], LAMBDA c : c.how # "latex")

\* Item i was handled by its fast-path branch: the branch made its call,
\* produced the value, or raised its own error.
FastMessages ==
    { "Provide 'var' for collect.", "Provide 'var' for differentiation.",
      "Provide 'var' for integration.", "Provide 'subs' mapping for substitution.",
      "Expression is not a matrix; cannot compute determinant.",
      "Expression is not a matrix; cannot compute inverse.",
      "Expression is not a matrix; cannot transpose.",
      "No variable to solve for; provide 'solve_for' or 'var'." }

FastUsed(i) ==
    \/ via[i] = "fast"
    \/ \E k \in 1..Len(calls[i]) : calls[i][k].how = "fast"
    \/ Computed(i) /\ ~hist[i].ok /\ hist[i].exc.msg \in FastMessages

\* The lexicographically first name of a non-empty set of names.
Before(a, b) ==
    \E i, j \in 1..Len(NameOrder) : NameOrder[i] = a /\ NameOrder[j] = b /\ i <= j
FirstName(S) == CHOOSE a \in S : \A b \in S : Before(a, b)

\* C1: batch never propagates an error and returns exactly one entry per
\* request, in order: {ok: true, data} when computing the request succeeded,
\* {ok: false, error: "<kind>: <message>"} when it failed; every item starts
\* from a fresh computation on its own, untouched request, whatever happened
\* to the items before it.
C1_BatchIsolatesFailures ==
    /\ pc \in {"parse", "dispatch", "resolve", "try1", "try1b", "try2", "try3",
               "probed", "call", "serialize", "finished", "done"}
    /\ Len(out) = idx - 1
    /\ pc = "done" => Len(out) = Len(items0) /\ Len(hist) = Len(items0)
    /\ \A i \in 1..Len(out) :
          /\ hist[i].ok =>
                /\ out[i].ok
                /\ DOMAIN out[i] = {"ok", "data"}
                /\ out[i].data = hist[i].data
          /\ ~hist[i].ok =>
                /\ ~out[i].ok
                /\ DOMAIN out[i] = {"ok", "error"}
                /\ out[i].error[1] = hist[i].exc.type
                /\ out[i].error[2] = ": "
                /\ out[i].error[3].msg = hist[i].exc.msg
    /\ pc = "parse" =>
          /\ InitLocals
          /\ calls[idx] = <<>>
          /\ \A j \in idx..Len(items) : items[j] = items0[j]

\* A batch of three whose second item is malformed and fails while the
\* first and the third succeed, all three reported in order.
C1_Witness ==
    /\ pc = "done"
    /\ Len(items0) = 3
    /\ Sympify(items0[2].expr) = NoneVal
    /\ hist[1].ok /\ out[1].ok
    /\ ~hist[2].ok /\ ~out[2].ok /\ out[2].error[1] = "SympifyError"
    /\ hist[3].ok /\ out[3].ok

\* C2: in the probing mode a computational failure of the library (an
\* exception that is no signature mismatch, so no TypeError) raised in any
\* attempt leaves compute as it is: not retried, not suppressed, not
\* rewrapped.
C2_ComputationalFailurePropagates ==
    \A i \in 1..Len(hist) :
       \A k \in 1..Len(calls[i]) :
          (calls[i][k].how = "probe" /\ calls[i][k].outcome = "Error") =>
             /\ k = Len(calls[i])
             /\ hist[i] = Failure(LibExc("Error"))

\* The tasks whose fast-path branch tests "not payload.args".
GuardedTasks ==
    { T_simplify, T_expand, T_factor, T_collect, T_cancel, T_apart, T_together,
      T_trigsimp, T_ratsimp, T_solve, T_diff, T_integrate, T_limit, T_series }

\* C3 as claimed: for every task with a fast-path entry, positionalArgs
\* present means the fast-path handler is not used and the result comes
\* from generic invocation.
C3_ArgsAlwaysBypassFastPath ==
    \A i \in 1..Len(hist) :
       (items0[i].task \in FastTasks /\ items0[i].args # <<>>) =>
          /\ ~FastUsed(i)
          /\ hist[i].ok => via[i] = "call"

\* C3, amended: for simplify, expand, factor, collect, cancel, apart,
\* together, trigsimp, ratsimp, solve, diff, integrate, limit and series the
\* fast-path handler is used only when there are no positionalArgs, and with
\* positionalArgs the result comes from generic invocation; evalf, det, inv
\* and transpose are handled by their fast-path handler with or without
\* positionalArgs, and so is subs whenever substitutions is non-empty.
C3_GuardedTasksBypassFastPath ==
    \A i \in 1..Len(hist) :
       LET r == items0[i]
       IN  /\ (r.task \in GuardedTasks /\ r.args # <<>>) =>
                 /\ ~FastUsed(i)
                 /\ hist[i].ok => via[i] = "call"
           /\ (r.task \in GuardedTasks /\ FastUsed(i)) => r.args = <<>>
           /\ (r.task \in {T_evalf, T_det, T_inv, T_transpose}
               /\ Parsed(i) # NoneVal) =>
                 /\ FastUsed(i)
                 /\ hist[i].ok => via[i] = "fast"
           /\ (r.task = T_subs /\ r.subs # EmptyMap /\ Parsed(i) # NoneVal) =>
                 /\ FastUsed(i)
                 /\ hist[i].ok /\ via[i] = "fast"
           /\ (r.task = T_subs /\ r.subs = EmptyMap /\ r.args # <<>>) =>
                 ~FastUsed(i)

\* A diff request with positionalArgs answered by the generic call.
C3_Witness ==
    \E i \in 1..Len(hist) :
       /\ items0[i].task = T_diff
       /\ items0[i].args # <<>>
       /\ hist[i].ok
       /\ via[i] = "call"
       /\ calls[i][1].key.fn = "diff"

\* Item i and item j are the same request but for the task, "diff" in one
\* and "derivative" in the other.
AliasPair(i, j) ==
    /\ items0[i].task = T_diff
    /\ items0[j] = [items0[i] EXCEPT !.task = T_derivative]

\* C4: a request under "diff" and the same request under "derivative" have
\* the same outcome: the same library calls with the same arguments and the
\* same response, or the same error.
C4_AliasSameOutcome ==
    (pc = "done" /\ Len(items0) = 2 /\ AliasPair(1, 2)) =>
       /\ hist[1] = hist[2]
       /\ [k \in 1..Len(OpCalls(1)) |-> OpCalls(1)[k].key]
             = [k \in 1..Len(OpCalls(2)) |-> OpCalls(2)[k].key]

\* A solve request with no positionalArgs, no solveFor and no variable.
SolveNoTarget(i) ==
    /\ items0[i].task = T_solve
    /\ items0[i].args = <<>>
    /\ items0[i].var = None
    /\ items0[i].solve_for = None
    /\ Parsed(i) # NoneVal

\* The equation the solve branch hands to the library.
SolveTarget(e) == IF e.eq THEN e ELSE [e EXCEPT !.eq = TRUE]

\* C5 as claimed: with no target given, solve targets the first free
\* variable of the expression, and with no free variable the request fails
\* with NoSolveTarget and the library's solve is never called without a
\* target.
C5_NoTargetFails ==
    \A i \in 1..Len(hist) :
       SolveNoTarget(i) =>
          /\ Parsed(i).free # {} =>
                OpCalls(i)[1].key.args
                   = <<SolveTarget(Parsed(i)), Symbol(FirstName(Parsed(i).free))>>
          /\ Parsed(i).free = {} =>
                /\ ~hist[i].ok
                /\ hist[i].exc.msg = "No variable to solve for; provide 'solve_for' or 'var'."
          /\ \A k \in 1..Len(calls[i]) :
                calls[i][k].key.fn = "solve" => Len(calls[i][k].key.args) >= 2

\* C5, amended: with no target given, solve targets the first free variable
\* of the expression; with no free variable the request does not fail with
\* NoSolveTarget: the fast path makes no call and the request falls through
\* to generic invocation, whose first call is the library's solve on the
\* parsed expression alone, without a target.
C5_NoTargetFallsThrough ==
    \A i \in 1..Len(hist) :
       SolveNoTarget(i) =>
          /\ OpCalls(i) # <<>>
          /\ OpCalls(i)[1].key.fn = "solve"
          /\ Parsed(i).free # {} =>
                /\ OpCalls(i)[1].how = "fast"
                /\ OpCalls(i)[1].key.args
                      = <<SolveTarget(Parsed(i)), Symbol(FirstName(Parsed(i).free))>>
          /\ Parsed(i).free = {} =>
                /\ ~FastUsed(i)
                /\ OpCalls(i)[1].how = "probe"
                /\ OpCalls(i)[1].key.args = <<Parsed(i)>>
                /\ OpCalls(i)[1].key.kw = items0[i].kwargs

\* A solve request on an expression without free variables, answered by the
\* untargeted generic call.
C5_Witness ==
    \E i \in 1..Len(hist) :
       /\ SolveNoTarget(i)
       /\ Parsed(i).free = {}
       /\ hist[i].ok
       /\ via[i] = "probe"
       /\ Len(OpCalls(i)[1].key.args) = 1

\* The limit variable the request asks for: variable, else the first free
\* variable, else "x".
LimitVar(i) ==
    IF items0[i].var # None THEN items0[i].var
    ELSE IF Parsed(i).free # {} THEN FirstName(Parsed(i).free)
    ELSE "x"

LimitPoint(i) ==
    IF LimitVar(i) \in DOMAIN items0[i].subs THEN items0[i].subs[LimitVar(i)] ELSE 0

LimitFast(i) ==
    /\ items0[i].task = T_limit
    /\ items0[i].args = <<>>
    /\ calls[i] # <<>>

\* C6: on the fast path of limit, the substitution applied to the
\* expression before the limit is taken holds every entry of substitutions
\* but the one of the limit variable; that entry's value (0 when absent) is
\* the evaluation point handed to the library and the limitPoint of the
\* metadata.
C6_LimitVariableNotSubstituted ==
    \A i \in 1..Len(calls) :
       LimitFast(i) =>
          LET c == calls[i][1]
              applied == c.key.args[1].applied
          IN  /\ c.how = "fast"
              /\ c.key.fn = "limit"
              /\ c.key.args[2] = Symbol(LimitVar(i))
              /\ DOMAIN applied = DOMAIN items0[i].subs \ {LimitVar(i)}
              /\ \A k \in DOMAIN applied : applied[k] = items0[i].subs[k]
              /\ c.key.args[3] = Num(LimitPoint(i))
              /\ (Computed(i) /\ hist[i].ok) =>
                    hist[i].data.meta["limit_point"] = LimitPoint(i)

\* A limit taken in the first free variable, which substitutions also names,
\* next to another substituted variable.
C6_Witness ==
    \E i \in 1..Len(hist) :
       /\ LimitFast(i)
       /\ items0[i].var = None
       /\ Parsed(i).free = {"x", "y"}
       /\ DOMAIN items0[i].subs = {"x", "y"}
       /\ hist[i].ok
       /\ hist[i].data.meta["limit_point"] = 2
       /\ DOMAIN calls[i][1].key.args[1].applied = {"y"}

\* C7: the freeSymbols of a successful response are the sorted free
\* variables of the expression as parsed from the request, whatever the task
\* and the substitutions.
C7_FreeSymbolsOfParsedExpression ==
    \A i \in 1..Len(hist) :
       hist[i].ok =>
          hist[i].data.meta["free_symbols"] = SortNames(Parsed(i).free)

\* C8: compute leaves every field of the request as it was.
C8_RequestUnchanged ==
    \A i \in 1..Len(items) : items[i] = items0[i]

\* The probing attempts a request can make, in order: their positional
\* arguments after the expression.
ProbeOrder(i) ==
    LET r == items0[i]
        both == r.var # None /\ r.solve_for # None
    IN  (IF both THEN << <<Symbol(r.var), Symbol(r.solve_for)>> >> ELSE <<>>)
        \o (IF both /\ Contains(r.task, T_inverse)
            THEN << <<Symbol(r.solve_for), Symbol(r.var)>> >> ELSE <<>>)
        \o (IF r.var # None THEN << <<Symbol(r.var)>> >> ELSE <<>>)
        \o << <<>> >>

\* C9: probing tries the conventions in order and stops at the first
\* attempt that returns: that attempt's value is the result and the
\* operation is not invoked again, whatever was returned.
C9_ProbingStopsAtFirstSuccess ==
    \A i \in 1..Len(calls) :
       items0[i].args = <<>> =>
          /\ \A k \in 1..Len(OpCalls(i)) :
                OpCalls(i)[k].how = "probe" =>
                   /\ k <= Len(ProbeOrder(i))
                   /\ Tail(OpCalls(i)[k].key.args) = ProbeOrder(i)[k]
                   /\ \A j \in 1..(k - 1) :
                         /\ OpCalls(i)[j].how = "probe"
                         /\ ~Returned(OpCalls(i)[j].outcome)
          /\ \A k \in 1..Len(OpCalls(i)) :
                (OpCalls(i)[k].how = "probe" /\ Returned(OpCalls(i)[k].outcome)) =>
                   k = Len(OpCalls(i))

\* The task of item i names a qualified path: after alias substitution it
\* is no top-level name and holds a ".".
Qualified(i) ==
    LET name == AliasMap(Strip(items0[i].task))
    IN  ~HasAttr("sympy", name) /\ Len(Split(name)) > 1

\* C10: for a qualified path the resolver gives up only when both lookups
\* failed: if walking the attributes from the library root reaches an
\* invocable object, the task is resolved.
C10_TraversalFallback ==
    \A i \in 1..Len(hist) :
       (Qualified(i) /\ ~hist[i].ok
        /\ hist[i].exc.msg = "Unsupported SymPy operation: ") =>
          ~Traverse(Obj("sympy"), Split(AliasMap(Strip(items0[i].task)))).callable

====
